---- MODULE Spec2Model ----
(***************************************************************************)
(* A model of the SIMD kernels of include/simsimd/simsimd.h.               *)
(*                                                                         *)
(* One behaviour is one call kernel(a, b, d): the initial state holds the  *)
(* arguments and the build (which guard macros are defined, the SVE vector *)
(* length, how the build fills the "don't care" lanes of _x intrinsics),   *)
(* one Step is one iteration of the kernel's loop, Return is the           *)
(* horizontal reduction and the return statement.  locals holds the local  *)
(* variables of the loop, hi the highest index loaded so far (-1: none).   *)
(*                                                                         *)
(* Arrays are functions on 0..d-1.  A vector register is a function on     *)
(* 0..N-1 (its lanes).  Floating point values are integers small enough    *)
(* that float32 and float16 arithmetic on them is exact.  The memory past  *)
(* the end of an array is not the caller's: a load from it either faults   *)
(* or yields the array's "tail" value, drawn with the inputs.              *)
(***************************************************************************)
EXTENDS Integers, Sequences, FiniteSets, TLC

VARIABLES kernel, enabled, VL, xlanes, a, b, aTail, bTail, d,
          pc, locals, hi, ret

vars == <<kernel, enabled, VL, xlanes, a, b, aTail, bTail, d,
          pc, locals, hi, ret>>

(***************************************************************************)
(* Bounds of the model.                                                    *)
(***************************************************************************)
\* longest float32 / float16 vector
MaxLen == 9
\* longest int8 vector
MaxLenI8 == 16
\* longest packed bit array, in bytes
MaxBytes == 256
\* how far past the end of the arrays a loop that missed its exit is followed
MaxOverrun == 8

(***************************************************************************)
(* The kernels, by the name of the function.                               *)
(***************************************************************************)
SveFloatKernels == {"simsimd_dot_f32sve", "simsimd_dot_f16sve", "simsimd_cos_f32sve",
                    "simsimd_euclidean_f32sve", "simsimd_euclidean_f16sve"}

SveKernels == SveFloatKernels \cup {"simsimd_hamming_u1x8sve"}

NeonKernels == {"simsimd_dot_f32x4neon", "simsimd_dot_f16x8neon",
                "simsimd_cos_f32x4neon", "simsimd_hamming_u1x128sve"}

Avx2Kernels == {"simsimd_dot_f32x4avx2", "simsimd_dot_i8x16avx2", "simsimd_cos_f32x4avx2"}

Avx512Kernels == {"simsimd_hamming_u1x128avx512"}

HammingKernels == {"simsimd_hamming_u1x8sve", "simsimd_hamming_u1x128sve",
                   "simsimd_hamming_u1x128avx512"}

Kernels == SveKernels \cup NeonKernels \cup Avx2Kernels \cup Avx512Kernels

\* the macro that guards the kernel's body
GuardMacro(k) ==
    IF k \in SveKernels THEN "__ARM_FEATURE_SVE"
    ELSE IF k \in NeonKernels THEN "__ARM_NEON"
    ELSE IF k \in Avx2Kernels THEN "__AVX2__"
    ELSE "__AVX512VPOPCNTDQ__"

\* #if defined(<guard>): the body with the intrinsics is compiled in
UsesIntrinsics(k, en) == en

\* The #else branch is (void)a, (void)b, (void)d; return 0;  The two f16 SVE
\* kernels call their parameters a_enum and b_enum, so in their #else branch a
\* and b are undeclared and the compiler rejects the function.
StubCompiles(k) == k \notin {"simsimd_dot_f16sve", "simsimd_euclidean_f16sve"}

(***************************************************************************)
(* Values a kernel returns.  Val(n) is the number n.  The square root of a *)
(* number that is no perfect square and the cosine quotient are kept as    *)
(* the expression the code evaluates.                                      *)
(***************************************************************************)
Val(n) == [v |-> n]

NoValue == [none |-> TRUE]

\* sqrt of <math.h>
sqrt(n) ==
    IF \E r \in 0..n : r * r = n
    THEN Val(CHOOSE r \in 0..n : r * r = n)
    ELSE [sqrt |-> n]

\* static_cast<simsimd_f16_t>(sqrt(d2)), simsimd_f16_t being int16_t
isqrt(n) == CHOOSE r \in 0..n : r * r <= n /\ (r + 1) * (r + 1) > n

\* ab / (sqrt(a2) * sqrt(b2))
Cos(ab, a2, b2) == [ab |-> ab, a2 |-> a2, b2 |-> b2]

(***************************************************************************)
(* Integer arithmetic of fixed width.                                      *)
(***************************************************************************)
\* an unsigned 8 bit lane
Wrap8(x) == x % 256

\* a signed 16 bit lane
Wrap16(x) == ((x + 32768) % 65536) - 32768

RECURSIVE BitXor(_, _, _)
BitXor(x, y, n) ==
    IF n = 0 THEN 0
    ELSE (((x % 2) + (y % 2)) % 2) + 2 * BitXor(x \div 2, y \div 2, n - 1)

RECURSIVE BitOr(_, _, _)
BitOr(x, y, n) ==
    IF n = 0 THEN 0
    ELSE (IF (x % 2) + (y % 2) > 0 THEN 1 ELSE 0) + 2 * BitOr(x \div 2, y \div 2, n - 1)

RECURSIVE BitCount(_, _)
BitCount(x, n) == IF n = 0 THEN 0 ELSE (x % 2) + BitCount(x \div 2, n - 1)

\* an OR where the XOR belongs
Or8(x, y) == BitOr(x, y, 8)

\* veorq_u8, sveor_u8, _mm_xor_si128 on one byte
Xor8(x, y) == BitXor(x, y, 8)

\* vcntq_u8, svcnt_u8, _mm_popcnt_epi64 on one byte
PopCnt8(x) == BitCount(x, 8)

RECURSIVE SumLanes(_, _)
\* the sum of lanes 0..n-1 of v
SumLanes(v, n) == IF n = 0 THEN 0 ELSE v[n - 1] + SumLanes(v, n - 1)

RECURSIVE SumOver(_, _)
\* the sum of the lanes of v in the set S
SumOver(v, S) ==
    IF S = {} THEN 0
    ELSE LET l == CHOOSE x \in S : TRUE IN v[l] + SumOver(v, S \ {l})

SetMax(S, dflt) == IF S = {} THEN dflt ELSE CHOOSE x \in S : \A y \in S : y <= x

Zero(N) == [l \in 0..(N - 1) |-> 0]

(***************************************************************************)
(* Memory.                                                                 *)
(***************************************************************************)
\* the element at index idx of an array of d elements
Load(mem, tail, len, idx) == IF idx < len THEN mem[idx] ELSE tail

(***************************************************************************)
(* The SVE intrinsics.  N is the number of lanes of the register, a        *)
(* predicate is the set of its active lanes.  The lanes an _x intrinsic    *)
(* leaves inactive hold whatever the build puts there: the first operand   *)
(* (a merging instruction) or zero (a zeroing prefix), as xl says.         *)
(***************************************************************************)
XLanes == {"op1", "zero"}

VectorLengths == {128, 256}

svcntw(vl) == vl \div 32

svcnth(vl) == vl \div 16

svcntb(vl) == vl \div 8

\* svwhilelt_b8, _b16, _b32 for a register of N elements of that width
svwhilelt(from, to, N) == {l \in 0..(N - 1) : from + l < to}

\* svwhilelt_b32 read as a predicate over the N8 byte lanes: one 32 bit element
\* is 4 byte lanes and its predicate bit is the bit of its lowest byte
svwhilelt_b32_u8(from, to, N8) ==
    {4 * e : e \in {x \in 0..((N8 \div 4) - 1) : from + x < to}}

\* svptrue_b32 read as a predicate over the N8 byte lanes
svptrue_b32_u8(N8) == {4 * e : e \in 0..((N8 \div 4) - 1)}

svptrue(N) == 0..(N - 1)

svptest_any(p) == p # {}

\* svld1_f32, svld1_f16, svld1_u8: inactive lanes are zero and are not loaded
svld1(p, mem, tail, len, base, N) ==
    [l \in 0..(N - 1) |-> IF l \in p THEN Load(mem, tail, len, base + l) ELSE 0]

\* svmla_f32_x, svmla_f16_x
svmla_x(p, op1, op2, op3, xl, N) ==
    [l \in 0..(N - 1) |->
        IF l \in p THEN op1[l] + op2[l] * op3[l]
        ELSE IF xl = "op1" THEN op1[l] ELSE 0]

\* svsub_f32_x, svsub_f16_x
svsub_x(p, op1, op2, xl, N) ==
    [l \in 0..(N - 1) |->
        IF l \in p THEN op1[l] - op2[l]
        ELSE IF xl = "op1" THEN op1[l] ELSE 0]

sveor_u8_m(p, op1, op2, N) ==
    [l \in 0..(N - 1) |-> IF l \in p THEN Xor8(op1[l], op2[l]) ELSE op1[l]]

svcnt_u8_x(p, op, xl, N) ==
    [l \in 0..(N - 1) |->
        IF l \in p THEN PopCnt8(op[l])
        ELSE IF xl = "op1" THEN op[l] ELSE 0]

svadd_u8_m(p, op1, op2, N) ==
    [l \in 0..(N - 1) |-> IF l \in p THEN Wrap8(op1[l] + op2[l]) ELSE op1[l]]

\* svaddv_f32, svaddv_f16, svaddv_u8 (the last returns uint64_t)
svaddv(p, op) == SumOver(op, p)

\* a float16 value converted to simsimd_f16_t, which is int16_t
F16ToI16(x) == IF x > 32767 THEN 32767 ELSE IF x < -32768 THEN -32768 ELSE x

(***************************************************************************)
(* The NEON intrinsics.                                                    *)
(***************************************************************************)
\* vld1q_f32, vld1q_f16, vld1q_u8, _mm_loadu_ps, _mm_loadu_si128, _mm_load_si128
vld1q(mem, tail, len, base, N) ==
    [l \in 0..(N - 1) |-> Load(mem, tail, len, base + l)]

\* vmlaq_f32(acc, x, y), and vaddq_f16(acc, vmulq_f16(x, y))
vmlaq(op1, op2, op3, N) == [l \in 0..(N - 1) |-> op1[l] + op2[l] * op3[l]]

vaddvq_f32(v) == SumLanes(v, 4)

vget_low_f16(v) == [l \in 0..3 |-> v[l]]

vget_high_f16(v) == [l \in 0..3 |-> v[l + 4]]

veorq_u8(x, y) == [l \in 0..15 |-> Xor8(x[l], y[l])]

vcntq_u8(x) == [l \in 0..15 |-> PopCnt8(x[l])]

vaddq_u8(x, y) == [l \in 0..15 |-> Wrap8(x[l] + y[l])]

\* vaddvq_u8 returns uint8_t
vaddvq_u8(v) == Wrap8(SumLanes(v, 16))

(***************************************************************************)
(* The x86 intrinsics.                                                     *)
(***************************************************************************)
mm_fmadd_ps(x, y, z) == [l \in 0..3 |-> x[l] * y[l] + z[l]]

mm_hadd_ps(x, y) ==
    [l \in 0..3 |->
        IF l = 0 THEN x[0] + x[1]
        ELSE IF l = 1 THEN x[2] + x[3]
        ELSE IF l = 2 THEN y[0] + y[1]
        ELSE y[2] + y[3]]

\* _mm_cvtsi128_si32(_mm_castps_si128(v)) read back through simsimd_f32i32_t.f
mm_cvtss(v) == v[0]

mm256_mullo_epi16(x, y) == [l \in 0..15 |-> Wrap16(x[l] * y[l])]

mm256_add_epi16(x, y) == [l \in 0..15 |-> Wrap16(x[l] + y[l])]

\* _mm256_hadd_epi16 adds pairs inside each 128 bit half separately
mm256_hadd_epi16(x, y) ==
    [l \in 0..15 |->
        LET h == 8 * (l \div 8)
            k == l % 4
        IN  IF (l % 8) < 4
            THEN Wrap16(x[h + 2 * k] + x[h + 2 * k + 1])
            ELSE Wrap16(y[h + 2 * k] + y[h + 2 * k + 1])]

\* _mm256_cvtsi256_si32: the low 32 bits, lanes 0 and 1, as a signed int
mm256_cvtsi256_si32(v) == (v[0] % 65536) + 65536 * v[1]

\* x & 0xFF
And0xFF(x) == x % 256

mm_xor_si128(x, y) == [l \in 0..15 |-> Xor8(x[l], y[l])]

RECURSIVE PopCntBytes(_, _, _)
PopCntBytes(v, from, n) ==
    IF n = 0 THEN 0 ELSE PopCnt8(v[from + n - 1]) + PopCntBytes(v, from, n - 1)

\* _mm_popcnt_epi64: the 16 bytes are two 64 bit lanes
mm_popcnt_epi64(v) == [w \in 0..1 |-> PopCntBytes(v, 8 * w, 8)]

mm_add_epi64(x, y) == [w \in 0..1 |-> x[w] + y[w]]

(***************************************************************************)
(* The kernels.  c holds the arguments of the call and the build:          *)
(*   [kernel, a, b, aTail, bTail, d, VL, xlanes],                          *)
(* s the locals of the loop: [i, pg, acc, iters], acc the tuple of the     *)
(* accumulator registers and iters the number of iterations made.          *)
(* K_init is the code before the loop, K_loop one iteration with the       *)
(* increment, K_return the code after the loop.                            *)
(***************************************************************************)
LoopState(ii, p, accs, n) == [i |-> ii, pg |-> p, acc |-> accs, iters |-> n]

LdA(c, base, N) == vld1q(c.a, c.aTail, c.d, base, N)

LdB(c, base, N) == vld1q(c.b, c.bTail, c.d, base, N)

SvLdA(c, s, N) == svld1(s.pg, c.a, c.aTail, c.d, s.i, N)

SvLdB(c, s, N) == svld1(s.pg, c.b, c.bTail, c.d, s.i, N)

---------------------------------------------------------------------------
simsimd_dot_f32sve_init(c) ==
    LoopState(0, svwhilelt(0, c.d, svcntw(c.VL)), <<Zero(svcntw(c.VL))>>, 0)

simsimd_dot_f32sve_loop(c, s) ==
    LET N == svcntw(c.VL)
        a_vec == SvLdA(c, s, N)
        b_vec == SvLdB(c, s, N)
        ab_vec == svmla_x(s.pg, s.acc[1], a_vec, b_vec, c.xlanes, N)
    IN  LoopState(s.i + N, svwhilelt(s.i + N, c.d, N), <<ab_vec>>, s.iters + 1)

simsimd_dot_f32sve_return(c, s) == Val(svaddv(svptrue(svcntw(c.VL)), s.acc[1]))

---------------------------------------------------------------------------
simsimd_dot_f16sve_init(c) ==
    LoopState(0, svwhilelt(0, c.d, svcnth(c.VL)), <<Zero(svcnth(c.VL))>>, 0)

simsimd_dot_f16sve_loop(c, s) ==
    LET N == svcnth(c.VL)
        a_vec == SvLdA(c, s, N)
        b_vec == SvLdB(c, s, N)
        ab_vec == svmla_x(s.pg, s.acc[1], a_vec, b_vec, c.xlanes, N)
    IN  LoopState(s.i + N, svwhilelt(s.i + N, c.d, N), <<ab_vec>>, s.iters + 1)

simsimd_dot_f16sve_return(c, s) ==
    Val(F16ToI16(svaddv(svptrue(svcnth(c.VL)), s.acc[1])))

---------------------------------------------------------------------------
simsimd_cos_f32sve_init(c) ==
    LET N == svcntw(c.VL)
    IN  LoopState(0, svwhilelt(0, c.d, N), <<Zero(N), Zero(N), Zero(N)>>, 0)

simsimd_cos_f32sve_loop(c, s) ==
    LET N == svcntw(c.VL)
        a_vec == SvLdA(c, s, N)
        b_vec == SvLdB(c, s, N)
        ab_vec == svmla_x(s.pg, s.acc[1], a_vec, b_vec, c.xlanes, N)
        a2_vec == svmla_x(s.pg, s.acc[2], a_vec, a_vec, c.xlanes, N)
        b2_vec == svmla_x(s.pg, s.acc[3], b_vec, b_vec, c.xlanes, N)
    IN  LoopState(s.i + N, svwhilelt(s.i + N, c.d, N),
                  <<ab_vec, a2_vec, b2_vec>>, s.iters + 1)

simsimd_cos_f32sve_return(c, s) ==
    LET all == svptrue(svcntw(c.VL))
    IN  Cos(svaddv(all, s.acc[1]), svaddv(all, s.acc[2]), svaddv(all, s.acc[3]))

---------------------------------------------------------------------------
simsimd_euclidean_f32sve_init(c) ==
    LoopState(0, svwhilelt(0, c.d, svcntw(c.VL)), <<Zero(svcntw(c.VL))>>, 0)

simsimd_euclidean_f32sve_loop(c, s) ==
    LET N == svcntw(c.VL)
        a_vec == SvLdA(c, s, N)
        b_vec == SvLdB(c, s, N)
        a_minus_b_vec == svsub_x(s.pg, a_vec, b_vec, c.xlanes, N)
        d2_vec == svmla_x(s.pg, s.acc[1], a_minus_b_vec, a_minus_b_vec, c.xlanes, N)
    IN  LoopState(s.i + N, svwhilelt(s.i + N, c.d, N), <<d2_vec>>, s.iters + 1)

simsimd_euclidean_f32sve_return(c, s) ==
    sqrt(svaddv(svptrue(svcntw(c.VL)), s.acc[1]))

---------------------------------------------------------------------------
simsimd_euclidean_f16sve_init(c) ==
    LoopState(0, svwhilelt(0, c.d, svcnth(c.VL)), <<Zero(svcnth(c.VL))>>, 0)

simsimd_euclidean_f16sve_loop(c, s) ==
    LET N == svcnth(c.VL)
        a_vec == SvLdA(c, s, N)
        b_vec == SvLdB(c, s, N)
        a_minus_b_vec == svsub_x(s.pg, a_vec, b_vec, c.xlanes, N)
        d2_vec == svmla_x(s.pg, s.acc[1], a_minus_b_vec, a_minus_b_vec, c.xlanes, N)
    IN  LoopState(s.i + N, svwhilelt(s.i + N, c.d, N), <<d2_vec>>, s.iters + 1)

simsimd_euclidean_f16sve_return(c, s) ==
    LET d2 == F16ToI16(svaddv(svptrue(svcnth(c.VL)), s.acc[1]))
    IN  Val(isqrt(d2))

---------------------------------------------------------------------------
simsimd_hamming_u1x8sve_init(c) ==
    LoopState(0, svwhilelt(0, c.d, svcntb(c.VL)), <<Zero(svcntb(c.VL))>>, 0)

simsimd_hamming_u1x8sve_loop(c, s) ==
    LET N == svcntb(c.VL)
        a_vec == SvLdA(c, s, N)
        b_vec == SvLdB(c, s, N)
        a_xor_b_vec == sveor_u8_m(s.pg, a_vec, b_vec, N)
        d_vec == svadd_u8_m(s.pg, s.acc[1], svcnt_u8_x(s.pg, a_xor_b_vec, c.xlanes, N), N)
        next == s.i + N * 8
    IN  LoopState(next, svwhilelt_b32_u8(next, c.d, N), <<d_vec>>, s.iters + 1)

simsimd_hamming_u1x8sve_return(c, s) ==
    Val(svaddv(svptrue_b32_u8(svcntb(c.VL)), s.acc[1]))

---------------------------------------------------------------------------
simsimd_dot_f32x4neon_init(c) == LoopState(0, {}, <<Zero(4)>>, 0)

simsimd_dot_f32x4neon_loop(c, s) ==
    LoopState(s.i + 4, {}, <<vmlaq(s.acc[1], LdA(c, s.i, 4), LdB(c, s.i, 4), 4)>>,
              s.iters + 1)

simsimd_dot_f32x4neon_return(c, s) == Val(vaddvq_f32(s.acc[1]))

---------------------------------------------------------------------------
simsimd_dot_f16x8neon_init(c) == LoopState(0, {}, <<Zero(8)>>, 0)

simsimd_dot_f16x8neon_loop(c, s) ==
    LoopState(s.i + 8, {}, <<vmlaq(s.acc[1], LdA(c, s.i, 8), LdB(c, s.i, 8), 8)>>,
              s.iters + 1)

simsimd_dot_f16x8neon_return(c, s) ==
    Val(F16ToI16(vaddvq_f32(vget_high_f16(s.acc[1])) + vaddvq_f32(vget_low_f16(s.acc[1]))))

---------------------------------------------------------------------------
simsimd_cos_f32x4neon_init(c) == LoopState(0, {}, <<Zero(4), Zero(4), Zero(4)>>, 0)

simsimd_cos_f32x4neon_loop(c, s) ==
    LET a_vec == LdA(c, s.i, 4)
        b_vec == LdB(c, s.i, 4)
    IN  LoopState(s.i + 4, {},
                  <<vmlaq(s.acc[1], a_vec, b_vec, 4),
                    vmlaq(s.acc[2], a_vec, a_vec, 4),
                    vmlaq(s.acc[3], b_vec, b_vec, 4)>>,
                  s.iters + 1)

simsimd_cos_f32x4neon_return(c, s) ==
    Cos(vaddvq_f32(s.acc[1]), vaddvq_f32(s.acc[2]), vaddvq_f32(s.acc[3]))

---------------------------------------------------------------------------
\* the NEON Hamming kernel carries the name of an SVE one
simsimd_hamming_u1x128sve_init(c) == LoopState(0, {}, <<Zero(16)>>, 0)

simsimd_hamming_u1x128sve_loop(c, s) ==
    LET a_vec == LdA(c, s.i, 16)
        b_vec == LdB(c, s.i, 16)
        a_xor_b_vec == veorq_u8(a_vec, b_vec)
    IN  LoopState(s.i + 16, {}, <<vaddq_u8(s.acc[1], vcntq_u8(a_xor_b_vec))>>,
                  s.iters + 1)

simsimd_hamming_u1x128sve_return(c, s) == Val(vaddvq_u8(s.acc[1]))

---------------------------------------------------------------------------
simsimd_dot_f32x4avx2_init(c) == LoopState(0, {}, <<Zero(4)>>, 0)

simsimd_dot_f32x4avx2_loop(c, s) ==
    LoopState(s.i + 4, {}, <<mm_fmadd_ps(LdA(c, s.i, 4), LdB(c, s.i, 4), s.acc[1])>>,
              s.iters + 1)

\* the return with the second _mm_hadd_ps left out
dot_f32x4avx2_return_one_hadd(c, s) == Val(mm_cvtss(mm_hadd_ps(s.acc[1], s.acc[1])))

simsimd_dot_f32x4avx2_return(c, s) ==
    LET h1 == mm_hadd_ps(s.acc[1], s.acc[1])
        h2 == mm_hadd_ps(h1, h1)
    IN  Val(mm_cvtss(h2))

---------------------------------------------------------------------------
simsimd_dot_i8x16avx2_init(c) == LoopState(0, {}, <<Zero(16)>>, 0)

\* _mm256_cvtepi8_epi16 sign-extends the 16 bytes loaded: the int8 values as they are
simsimd_dot_i8x16avx2_loop(c, s) ==
    LoopState(s.i + 4, {},
              <<mm256_add_epi16(s.acc[1],
                                mm256_mullo_epi16(LdA(c, s.i, 16), LdB(c, s.i, 16)))>>,
              s.iters + 1)

simsimd_dot_i8x16avx2_return(c, s) ==
    LET h1 == mm256_hadd_epi16(s.acc[1], s.acc[1])
        h2 == mm256_hadd_epi16(h1, h1)
        h3 == mm256_hadd_epi16(h2, h2)
    IN  Val(And0xFF(mm256_cvtsi256_si32(h3)))

---------------------------------------------------------------------------
simsimd_cos_f32x4avx2_init(c) == LoopState(0, {}, <<Zero(4), Zero(4), Zero(4)>>, 0)

simsimd_cos_f32x4avx2_loop(c, s) ==
    LET a_vec == LdA(c, s.i, 4)
        b_vec == LdB(c, s.i, 4)
    IN  LoopState(s.i + 4, {},
                  <<mm_fmadd_ps(a_vec, b_vec, s.acc[1]),
                    mm_fmadd_ps(a_vec, a_vec, s.acc[2]),
                    mm_fmadd_ps(b_vec, b_vec, s.acc[3])>>,
                  s.iters + 1)

simsimd_cos_f32x4avx2_return(c, s) ==
    LET ab == mm_hadd_ps(mm_hadd_ps(s.acc[1], s.acc[1]), mm_hadd_ps(s.acc[1], s.acc[1]))
        a2 == mm_hadd_ps(mm_hadd_ps(s.acc[2], s.acc[2]), mm_hadd_ps(s.acc[2], s.acc[2]))
        b2 == mm_hadd_ps(mm_hadd_ps(s.acc[3], s.acc[3]), mm_hadd_ps(s.acc[3], s.acc[3]))
    IN  Cos(mm_cvtss(ab), mm_cvtss(a2), mm_cvtss(b2))

---------------------------------------------------------------------------
\* size_t words = d / 128
hamming_words(c) == c.d \div 128

\* i counts 64 bit words: a64 + i is byte 8 * i of a
simsimd_hamming_u1x128avx512_init(c) == LoopState(0, {}, <<Zero(2)>>, 0)

simsimd_hamming_u1x128avx512_loop(c, s) ==
    LoopState(s.i + 2, {},
              <<mm_add_epi64(s.acc[1],
                             mm_popcnt_epi64(mm_xor_si128(LdA(c, 8 * s.i, 16),
                                                          LdB(c, 8 * s.i, 16))))>>,
              s.iters + 1)

simsimd_hamming_u1x128avx512_return(c, s) == Val(s.acc[1][0] + s.acc[1][1])

(***************************************************************************)
(* The kernel of a call, by its name.                                      *)
(***************************************************************************)
KInit(c) ==
    CASE c.kernel = "simsimd_dot_f32sve" -> simsimd_dot_f32sve_init(c)
      [] c.kernel = "simsimd_dot_f16sve" -> simsimd_dot_f16sve_init(c)
      [] c.kernel = "simsimd_cos_f32sve" -> simsimd_cos_f32sve_init(c)
      [] c.kernel = "simsimd_euclidean_f32sve" -> simsimd_euclidean_f32sve_init(c)
      [] c.kernel = "simsimd_euclidean_f16sve" -> simsimd_euclidean_f16sve_init(c)
      [] c.kernel = "simsimd_hamming_u1x8sve" -> simsimd_hamming_u1x8sve_init(c)
      [] c.kernel = "simsimd_dot_f32x4neon" -> simsimd_dot_f32x4neon_init(c)
      [] c.kernel = "simsimd_dot_f16x8neon" -> simsimd_dot_f16x8neon_init(c)
      [] c.kernel = "simsimd_cos_f32x4neon" -> simsimd_cos_f32x4neon_init(c)
      [] c.kernel = "simsimd_hamming_u1x128sve" -> simsimd_hamming_u1x128sve_init(c)
      [] c.kernel = "simsimd_dot_f32x4avx2" -> simsimd_dot_f32x4avx2_init(c)
      [] c.kernel = "simsimd_dot_i8x16avx2" -> simsimd_dot_i8x16avx2_init(c)
      [] c.kernel = "simsimd_cos_f32x4avx2" -> simsimd_cos_f32x4avx2_init(c)
      [] c.kernel = "simsimd_hamming_u1x128avx512" -> simsimd_hamming_u1x128avx512_init(c)

KLoop(c, s) ==
    CASE c.kernel = "simsimd_dot_f32sve" -> simsimd_dot_f32sve_loop(c, s)
      [] c.kernel = "simsimd_dot_f16sve" -> simsimd_dot_f16sve_loop(c, s)
      [] c.kernel = "simsimd_cos_f32sve" -> simsimd_cos_f32sve_loop(c, s)
      [] c.kernel = "simsimd_euclidean_f32sve" -> simsimd_euclidean_f32sve_loop(c, s)
      [] c.kernel = "simsimd_euclidean_f16sve" -> simsimd_euclidean_f16sve_loop(c, s)
      [] c.kernel = "simsimd_hamming_u1x8sve" -> simsimd_hamming_u1x8sve_loop(c, s)
      [] c.kernel = "simsimd_dot_f32x4neon" -> simsimd_dot_f32x4neon_loop(c, s)
      [] c.kernel = "simsimd_dot_f16x8neon" -> simsimd_dot_f16x8neon_loop(c, s)
      [] c.kernel = "simsimd_cos_f32x4neon" -> simsimd_cos_f32x4neon_loop(c, s)
      [] c.kernel = "simsimd_hamming_u1x128sve" -> simsimd_hamming_u1x128sve_loop(c, s)
      [] c.kernel = "simsimd_dot_f32x4avx2" -> simsimd_dot_f32x4avx2_loop(c, s)
      [] c.kernel = "simsimd_dot_i8x16avx2" -> simsimd_dot_i8x16avx2_loop(c, s)
      [] c.kernel = "simsimd_cos_f32x4avx2" -> simsimd_cos_f32x4avx2_loop(c, s)
      [] c.kernel = "simsimd_hamming_u1x128avx512" -> simsimd_hamming_u1x128avx512_loop(c, s)

KReturn(c, s) ==
    CASE c.kernel = "simsimd_dot_f32sve" -> simsimd_dot_f32sve_return(c, s)
      [] c.kernel = "simsimd_dot_f16sve" -> simsimd_dot_f16sve_return(c, s)
      [] c.kernel = "simsimd_cos_f32sve" -> simsimd_cos_f32sve_return(c, s)
      [] c.kernel = "simsimd_euclidean_f32sve" -> simsimd_euclidean_f32sve_return(c, s)
      [] c.kernel = "simsimd_euclidean_f16sve" -> simsimd_euclidean_f16sve_return(c, s)
      [] c.kernel = "simsimd_hamming_u1x8sve" -> simsimd_hamming_u1x8sve_return(c, s)
      [] c.kernel = "simsimd_dot_f32x4neon" -> simsimd_dot_f32x4neon_return(c, s)
      [] c.kernel = "simsimd_dot_f16x8neon" -> simsimd_dot_f16x8neon_return(c, s)
      [] c.kernel = "simsimd_cos_f32x4neon" -> simsimd_cos_f32x4neon_return(c, s)
      [] c.kernel = "simsimd_hamming_u1x128sve" -> simsimd_hamming_u1x128sve_return(c, s)
      [] c.kernel = "simsimd_dot_f32x4avx2" -> simsimd_dot_f32x4avx2_return(c, s)
      [] c.kernel = "simsimd_dot_i8x16avx2" -> simsimd_dot_i8x16avx2_return(c, s)
      [] c.kernel = "simsimd_cos_f32x4avx2" -> simsimd_cos_f32x4avx2_return(c, s)
      [] c.kernel = "simsimd_hamming_u1x128avx512" -> simsimd_hamming_u1x128avx512_return(c, s)

\* The loop condition.  The SVE loops are do-while loops: the first pass is
\* unconditional and the later ones test the predicate.  The others are
\* for (i = 0; i != end; i += step).  i is a size_t; every step divides 2^64,
\* so wrapping around keeps i's residue and is not followed here.
KCond(c, s) ==
    IF c.kernel \in SveKernels THEN s.iters = 0 \/ svptest_any(s.pg)
    ELSE IF c.kernel = "simsimd_hamming_u1x128avx512" THEN s.i # hamming_words(c)
    ELSE s.i # c.d

\* what i advances by in one iteration
KStep(c) ==
    CASE c.kernel \in {"simsimd_dot_f32sve", "simsimd_cos_f32sve",
                       "simsimd_euclidean_f32sve"} -> svcntw(c.VL)
      [] c.kernel \in {"simsimd_dot_f16sve", "simsimd_euclidean_f16sve"} -> svcnth(c.VL)
      [] c.kernel = "simsimd_hamming_u1x8sve" -> svcntb(c.VL) * 8
      [] c.kernel = "simsimd_dot_f16x8neon" -> 8
      [] c.kernel = "simsimd_hamming_u1x128sve" -> 16
      [] c.kernel = "simsimd_hamming_u1x128avx512" -> 2
      [] OTHER -> 4

\* the index of the element of a, and of b, at which the next iteration starts
KOffset(c, s) == IF c.kernel = "simsimd_hamming_u1x128avx512" THEN 8 * s.i ELSE s.i

\* the indices of the elements of a and of b that the next iteration loads
KLoads(c, s) ==
    CASE c.kernel \in SveKernels -> {s.i + l : l \in s.pg}
      [] c.kernel \in {"simsimd_dot_f32x4neon", "simsimd_cos_f32x4neon",
                       "simsimd_dot_f32x4avx2", "simsimd_cos_f32x4avx2"} -> s.i..(s.i + 3)
      [] c.kernel = "simsimd_dot_f16x8neon" -> s.i..(s.i + 7)
      [] c.kernel \in {"simsimd_hamming_u1x128sve", "simsimd_dot_i8x16avx2"} ->
            s.i..(s.i + 15)
      [] c.kernel = "simsimd_hamming_u1x128avx512" -> (8 * s.i)..(8 * s.i + 15)

(***************************************************************************)
(* The inputs.                                                             *)
(***************************************************************************)
\* values past the end of an array, when a load from there does not fault
Tails == {0, 1}

\* <<first element, difference of neighbours, "all" or only the first "two" non-zero>>
FloatShapes == {<<1, 1, "all">>, <<4, -1, "all">>, <<3, 1, "two">>,
                <<0, 0, "all">>, <<1, 0, "all">>, <<2, -1, "all">>}

Int8Shapes == {<<1, 0, "all">>, <<0, 0, "all">>, <<-3, 1, "all">>, <<5, -1, "all">>}

Ramp(p, n) ==
    [j \in 0..(n - 1) |-> IF p[3] = "two" /\ j >= 2 THEN 0 ELSE p[1] + p[2] * j]

\* <<byte at even indices, byte at odd indices>>
ByteShapes == {<<0, 0>>, <<255, 255>>, <<255, 0>>, <<90, 165>>}

Bytes(p, n) == [j \in 0..(n - 1) |-> IF j % 2 = 0 THEN p[1] ELSE p[2]]

Lengths(k) ==
    IF k \in HammingKernels THEN {n \in 0..MaxBytes : n % 16 = 0 \/ n % 128 = 2}
    ELSE IF k = "simsimd_dot_i8x16avx2" THEN 0..MaxLenI8
    ELSE 0..MaxLen

Arrays(k, n) ==
    IF k \in HammingKernels THEN {Bytes(p, n) : p \in ByteShapes}
    ELSE IF k = "simsimd_dot_i8x16avx2" THEN {Ramp(p, n) : p \in Int8Shapes}
    ELSE {Ramp(p, n) : p \in FloatShapes}

(***************************************************************************)
(* The state machine of one call.                                          *)
(***************************************************************************)
call == [kernel |-> kernel, a |-> a, b |-> b, aTail |-> aTail, bTail |-> bTail,
         d |-> d, VL |-> VL, xlanes |-> xlanes]

Init ==
    /\ kernel \in Kernels
    /\ enabled \in BOOLEAN
    /\ VL \in VectorLengths
    /\ xlanes \in XLanes
    /\ (kernel \in SveKernels /\ enabled) \/ (VL = 128 /\ xlanes = "op1")
    /\ d \in Lengths(kernel)
    /\ a \in Arrays(kernel, d)
    /\ b \in Arrays(kernel, d)
    /\ aTail \in Tails
    /\ bTail \in Tails
    /\ pc = "call"
    /\ locals = LoopState(0, {}, <<>>, 0)
    /\ hi = -1
    /\ ret = NoValue

\* the call enters the body written with the intrinsics
Enter ==
    /\ pc = "call"
    /\ UsesIntrinsics(kernel, enabled)
    /\ locals' = KInit(call)
    /\ pc' = "loop"
    /\ UNCHANGED <<kernel, enabled, VL, xlanes, a, b, aTail, bTail, d, hi, ret>>

\* the guard macro is not defined: (void)a, (void)b, (void)d; return 0;
Stub ==
    /\ pc = "call"
    /\ ~UsesIntrinsics(kernel, enabled)
    /\ StubCompiles(kernel)
    /\ ret' = Val(0)
    /\ pc' = "done"
    /\ UNCHANGED <<kernel, enabled, VL, xlanes, a, b, aTail, bTail, d,
                   locals, hi>>

\* the guard macro is not defined and the #else branch is ill-formed: the
\* build fails and there is no function to call
Reject ==
    /\ pc = "call"
    /\ ~UsesIntrinsics(kernel, enabled)
    /\ ~StubCompiles(kernel)
    /\ pc' = "rejected"
    /\ UNCHANGED <<kernel, enabled, VL, xlanes, a, b, aTail, bTail, d,
                   locals, hi, ret>>

\* one iteration of the loop
Step ==
    /\ pc = "loop"
    /\ KCond(call, locals)
    /\ KOffset(call, locals) <= d + MaxOverrun
    /\ locals' = KLoop(call, locals)
    /\ hi' = SetMax(KLoads(call, locals) \cup {hi}, hi)
    /\ UNCHANGED <<kernel, enabled, VL, xlanes, a, b, aTail, bTail, d, pc, ret>>

\* a load past the end of an array may fault
Fault ==
    /\ pc = "loop"
    /\ KCond(call, locals)
    /\ \E idx \in KLoads(call, locals) : idx >= d
    /\ pc' = "fault"
    /\ hi' = SetMax(KLoads(call, locals) \cup {hi}, hi)
    /\ UNCHANGED <<kernel, enabled, VL, xlanes, a, b, aTail, bTail, d,
                   locals, ret>>

\* the loop is over: the horizontal reduction and the return
Return ==
    /\ pc = "loop"
    /\ ~KCond(call, locals)
    /\ ret' = KReturn(call, locals)
    /\ pc' = "done"
    /\ UNCHANGED <<kernel, enabled, VL, xlanes, a, b, aTail, bTail, d,
                   locals, hi>>

Next == Enter \/ Stub \/ Reject \/ Step \/ Fault \/ Return

Spec == Init /\ [][Next]_vars

(***************************************************************************)
(* A whole call as a function of its arguments: the loop run to its exit,  *)
(* for at most fuel iterations.                                            *)
(***************************************************************************)
RECURSIVE RunFrom(_, _, _)
RunFrom(c, s, fuel) ==
    IF ~KCond(c, s) THEN KReturn(c, s)
    ELSE IF fuel = 0 THEN NoValue
    ELSE RunFrom(c, KLoop(c, s), fuel - 1)

Run(c) == RunFrom(c, KInit(c), c.d + 1)

\* the call with a and b exchanged
Swapped(c) == [c EXCEPT !.a = c.b, !.b = c.a, !.aTail = c.bTail, !.bTail = c.aTail]

\* the call made to another kernel with the identical arguments
Other(c, k) == [c EXCEPT !.kernel = k]

(***************************************************************************)
(* The metrics as the specification defines them.                          *)
(***************************************************************************)
RECURSIVE RefDot(_, _, _)
RefDot(x, y, n) == IF n = 0 THEN 0 ELSE x[n - 1] * y[n - 1] + RefDot(x, y, n - 1)

RECURSIVE RefSqDist(_, _, _)
RefSqDist(x, y, n) ==
    IF n = 0 THEN 0
    ELSE (x[n - 1] - y[n - 1]) * (x[n - 1] - y[n - 1]) + RefSqDist(x, y, n - 1)

Bit(x, k) == (x \div (2 ^ k)) % 2

DiffBits(x, y) == Cardinality({k \in 0..7 : Bit(x, k) # Bit(y, k)})

RECURSIVE RefHamming(_, _, _)
RefHamming(x, y, n) ==
    IF n = 0 THEN 0 ELSE DiffBits(x[n - 1], y[n - 1]) + RefHamming(x, y, n - 1)

Returned == pc = "done" /\ enabled

(***************************************************************************)
(* The claims.                                                             *)
(***************************************************************************)

\* C1: for float32 vectors of equal length d, d a positive multiple of 4, with
\* small integer elements, simsimd_dot_f32x4avx2 and simsimd_dot_f32x4neon
\* return exactly the sum over i < d of a[i] * b[i].
C1_DotF32x4Exact ==
    (Returned /\ kernel \in {"simsimd_dot_f32x4avx2", "simsimd_dot_f32x4neon"}
        /\ d > 0 /\ d % 4 = 0)
    => ret = Val(RefDot(a, b, d))

\* the AVX2 kernel has returned 20 for a = [1,2,3,4], b = [4,3,2,1]
C1_Witness ==
    /\ Returned
    /\ kernel = "simsimd_dot_f32x4avx2"
    /\ d = 4
    /\ a = Ramp(<<1, 1, "all">>, 4)
    /\ b = Ramp(<<4, -1, "all">>, 4)
    /\ ret = Val(20)

\* C2: for packed arrays of d bytes, d any positive multiple of 16, the NEON
\* Hamming kernel returns the number of bit positions in which a and b differ.
C2_NeonHammingExact ==
    (Returned /\ kernel = "simsimd_hamming_u1x128sve" /\ d > 0 /\ d % 16 = 0)
    => ret = Val(RefHamming(a, b, d))

\* where the loop of the call ends: d elements, or d / 128 words
KEnd(c) == IF c.kernel = "simsimd_hamming_u1x128avx512" THEN hamming_words(c) ELSE c.d

\* C3: every kernel returns after a number of loop iterations at most
\* proportional to d, for every d >= 0: it never makes more iterations than
\* there are chunks between the start and the end of the arrays, plus one.
C3_IterationsLinear == locals.iters <= (KEnd(call) \div KStep(call)) + 1

\* C4: no kernel ever loads an element of a or b at an index >= d.
C4_NoLoadPastEnd == hi < d

\* C5: for d a multiple of 256 the three Hamming kernels return the same
\* count when called with the identical arguments (a, b, d).
C5_HammingKernelsAgree ==
    (Returned /\ kernel = "simsimd_hamming_u1x128avx512" /\ d % 256 = 0)
    => /\ ret = Run(Other(call, "simsimd_hamming_u1x128sve"))
       /\ ret = Run(Other(call, "simsimd_hamming_u1x8sve"))

\* C6: simsimd_euclidean_f32sve and simsimd_euclidean_f16sve return the squared
\* Euclidean distance, the sum over i < d of (a[i] - b[i])^2.
C6_EuclideanIsSquared ==
    (Returned /\ kernel \in {"simsimd_euclidean_f32sve", "simsimd_euclidean_f16sve"})
    => ret = Val(RefSqDist(a, b, d))

\* C7: for each Hamming kernel and every call that returns: the distance of an
\* array to itself is 0, the distance is the same with a and b exchanged, and
\* it is at most the number of bits of each packed array.
C7_HammingLaws ==
    (Returned /\ kernel \in HammingKernels)
    => /\ (a = b /\ aTail = bTail) => ret = Val(0)
       /\ ret = Run(Swapped(call))
       /\ ret.v >= 0
       /\ ret.v <= 8 * d

\* a Hamming kernel has returned a non-zero count for two different arrays
C7_Witness ==
    /\ Returned
    /\ kernel = "simsimd_hamming_u1x8sve"
    /\ locals.iters > 1
    /\ a # b
    /\ ret.v > 0

\* C8: simsimd_dot_i8x16avx2 returns the exact signed inner product for int8
\* vectors of length d, d a positive multiple of 16, whose inner product fits
\* a signed 16 bit accumulator.
C8_DotI8Exact ==
    (Returned /\ kernel = "simsimd_dot_i8x16avx2" /\ d > 0 /\ d % 16 = 0
        /\ RefDot(a, b, d) \in -32768..32767)
    => ret = Val(RefDot(a, b, d))

\* C9: in the SVE kernels with predicated tails, for every d >= 1 and every
\* lane count, the partial sums in lanes inactive in the last chunk are kept,
\* so the final reduction is the sum over exactly the d elements.
C9_SveTailExact ==
    (Returned /\ d >= 1)
    => /\ kernel = "simsimd_dot_f32sve" => ret = Val(RefDot(a, b, d))
       /\ kernel = "simsimd_cos_f32sve" =>
            ret = Cos(RefDot(a, b, d), RefDot(a, a, d), RefDot(b, b, d))
       /\ kernel = "simsimd_euclidean_f32sve" => ret = sqrt(RefSqDist(a, b, d))

\* C10: when the guard macro of a kernel is not defined, the kernel still
\* exists and can be called, loads no element of a or b, makes no iteration
\* and returns 0, whatever the input.
C10_StubReturnsZero ==
    ~enabled
    => /\ hi = -1
       /\ locals.iters = 0
       /\ pc \in {"call", "done"}
       /\ pc = "done" => ret = Val(0)

====
